---- MODULE Spec2Model ----
(***************************************************************************)
(* Palette 2 driver (klippy/extras/palette2.py): the serial link           *)
(* lifecycle, the Reader and Writer threads, the outbound queue, the       *)
(* heartbeat supervision and the print-session state.                      *)
(*                                                                         *)
(* Conventions of the model                                                *)
(*  - A Python value that may be None is a sequence of length 0 (None) or  *)
(*    1 (the value): heartbeat, raw_line, omega_drives.                    *)
(*  - An outbound line is a string; the Python None put on the queue by    *)
(*    cmd_P2_O20 is the token None below.                                  *)
(*  - An inbound device line is the sequence of its whitespace-separated   *)
(*    tokens; a token is <<first character, rest>>.                        *)
(*  - Host command handlers run on the single host thread and are one      *)
(*    step each.  The two threads are cut where they block: the reader in  *)
(*    readline, the writer in the queue get; and before each put of the    *)
(*    writer's handshake.  What a thread does between two such points is   *)
(*    one step.                                                            *)
(***************************************************************************)
EXTENDS Integers, Sequences, FiniteSets, TLC

\* ---------------------------------------------------------------- bounds
MaxTime == 14        \* the clock stops advancing here
MaxConnects == 2     \* serial.Serial objects opened by cmd_Connect
MaxHostCmds == 2     \* host commands other than connect/disconnect
MaxLines == 2        \* lines the device sends
HbConnects == 2      \* the same, where the heartbeat is supervised
HbLines == 2
FifoHostCmds == 2    \* the same, where the order of transmission is observed
FifoLines == 2
FifoTime == 7
FwLines == 2         \* the same, where the firmware version is reported
SessHostCmds == 3    \* the same, where the print session is built and reset
SessLines == 2
DevHostCmds == 1     \* the same, where the device reports events
DevLines == 2
O1HostCmds == 2      \* the same, where the print is initialized
O1Lines == 2
DataHostCmds == 3    \* the same, where the device asks for the print data
DataLines == 3
CountHostCmds == 3   \* the same, where the counters run to the end of their tables
CountLines == 10

\* ------------------------------------------------------- program constants
COMMAND_HEARTBEAT == "O99"
COMMAND_CUT == "O10 D5"
COMMAND_CLEAR ==
  << "O10 D5",
     "O10 D0 D0 D0 DFFE1",
     "O10 D1 D0 D0 DFFE1",
     "O10 D2 D0 D0 DFFE1",
     "O10 D3 D0 D0 DFFE1",
     "O10 D4 D0 D0 D0069" >>
COMMAND_FILENAME == "O51"
COMMAND_FILENAMES_DONE == "O52"
COMMAND_FIRMWARE == "O50"
HEARTBEAT_SEND == 5
HEARTBEAT_TIMEOUT == 11
INFO_NOT_CONNECTED == "Palette 2 is not connected, connect first"
INFO_ALREADY_ACTIVE == "Palette 2 serial port is already active, disconnect first"
ERR_FIRMWARE == "Palette 2 firmware version is too old, update to at least 9.0.9"
ERR_THREAD_START == "RuntimeError: threads can only be started once"
ERR_NO_RESPONSE == "No response from Palette 2 when initializing"
ERR_NONE_COMPARE == "TypeError: '<' not supported between instances of 'NoneType' and 'float'"
INFO_WAITING == "Palette 2 waiting on user to complete setup"
ERR_NO_SDCARD == "Palette 2 requires [virtual_sdcard] to work, please add it to your config!"
ERR_NO_PAUSE == "Palette 2 requires [pause_resume] to work, please add it to your config!"

\* Python's None as a queue entry or a header slot
None == "None"

\* Python truthiness of a queue entry (str or None)
Truthy(x) == x /= None /\ x /= ""

\* str.strip() on the outbound lines of this model: the line-reset token
\* "\n" is all whitespace, the other lines carry none at their ends
Strip(x) == IF x = "\n" THEN "" ELSE x

\* "%s\n" % l, the line as it goes on the wire
Terminated(l) == <<l, "\n">>

\* ------------------------------------------------------------ device lines
Tok(c, rest) == <<c, rest>>
LINE_HEARTBEAT == << Tok("O", "99") >>
LINE_BLANK == << >>
LINE_O20(d) == << Tok("O", "20"), Tok("D", d) >>
LINE_O34(kind, pct) == << Tok("O", "34"), Tok("D", kind), Tok("D", pct), Tok("D", "0") >>
LINE_O50_LIST == << Tok("O", "50") >>
LINE_O50_VER(v) == << Tok("O", "50"), Tok("D", v), Tok("D", "0") >>
LINE_O50_VER1(v) == << Tok("O", "50"), Tok("D", v) >>
LINE_O53(idx) == << Tok("O", "53"), Tok("D", "1"), Tok("D", idx) >>
LINE_O40 == << Tok("O", "40") >>
LINE_O100 == << Tok("O", "100") >>
LINE_O88(code) == << Tok("O", "88"), Tok("D", code) >>
LINE_O97(p1, p2) == << Tok("O", "97"), p1, p2 >>
LINE_O97_3(p1, p2, p3) == << Tok("O", "97"), p1, p2, p3 >>
LINE_UNKNOWN == << Tok("O", "77"), Tok("D", "1") >>
LINE_O40_X == << Tok("O", "40"), Tok("X", "1") >>
LINE_O20_BARE == << Tok("O", "20") >>

\* the characters of the strings that are compared by order, as code points
Chars(s) ==
  CASE s = "9.0.9"  -> <<57, 46, 48, 46, 57>>
    [] s = "9.0.8"  -> <<57, 46, 48, 46, 56>>
    [] s = "9.1.0"  -> <<57, 46, 49, 46, 48>>
    [] s = "10.0.0" -> <<49, 48, 46, 48, 46, 48>>
    [] s = "8.2.1"  -> <<56, 46, 50, 46, 49>>
    [] OTHER        -> << >>

\* Python's str < str: lexicographic on code points, a proper prefix is less
RECURSIVE SeqLess(_, _)
SeqLess(a, b) ==
  IF b = << >> THEN FALSE
  ELSE IF a = << >> THEN TRUE
  ELSE IF Head(a) /= Head(b) THEN Head(a) < Head(b)
  ELSE SeqLess(Tail(a), Tail(b))

StrLess(s, t) == SeqLess(Chars(s), Chars(t))

\* int(s): <<n>> when s parses as a decimal integer, << >> (ValueError) otherwise
IntOf(s) ==
  CASE s = "0" -> <<0>>
    [] s = "1" -> <<1>>
    [] s = "2" -> <<2>>
    [] s = "3" -> <<3>>
    [] s = "4" -> <<4>>
    [] s = "5" -> <<5>>
    [] s = "8" -> <<8>>
    [] OTHER   -> << >>

\* int(s, 16): <<n>> when s parses as a hexadecimal integer, << >>
\* (ValueError) otherwise
HexOf(s) ==
  CASE s = "0"  -> <<0>>
    [] s = "1"  -> <<1>>
    [] s = "2"  -> <<2>>
    [] s = "3"  -> <<3>>
    [] s = "-1" -> <<0 - 1>>
    [] s = "-2" -> <<0 - 2>>
    [] s = "-3" -> <<0 - 3>>
    [] s = "A"  -> <<10>>
    [] s = "10" -> <<16>>
    [] OTHER    -> << >>

\* float(s): <<s>> when s parses as a number, << >> (ValueError) otherwise
FloatOf(s) ==
  IF s \in {"0", "1", "2", "3", "4", "5", "8", "12.5", "50", "99.2"} THEN <<s>> ELSE << >>

\* ------------------------------------------------------------------ state
VARIABLES
  serial,            \* self.serial: 0 is None, n > 0 the n-th Serial object
  is_open,           \* the Serial objects whose is_open is True
  nconn,             \* Serial objects created so far
  thread_serial,     \* the Serial object passed to both threads when created
  read_pc,           \* read_thread: "None", position in _run_Read, "done", "dead"
  write_pc,          \* write_thread: "None", position in _run_Write, "done", "dead"
  raw_line,          \* _run_Read's raw_line: << >> empty read, <<line>> a line
  now,               \* time.time()
  heartbeat,         \* self.heartbeat: << >> is None, <<t>> a timestamp
  lastHeartbeatSend, \* _run_Write's local
  write_queue,       \* self.write_queue
  is_printing,
  files, omega_algorithms, omega_algorithms_counter, omega_splices,
  omega_splices_counter, omega_pings, omega_pongs, omega_current_ping,
  omega_header, omega_header_counter, omega_last_command, omega_drivers,
  omega_drives,      \* << >> while the attribute does not exist, <<list>> once set
  resp,              \* what the last host command told the operator, "" nothing
  startTs,           \* cmd_O1's startTs while it waits: << >> when it does not
  matched,           \* the calls _param_Matcher has made: <<action, params>>
  scripts,           \* host scripts requested through gcode.run_script
  wire,              \* lines written to the serial port, oldest first
  enq,               \* every entry put on write_queue, oldest first
  sess_start,        \* Len(enq) when the current Serial object was opened
  discBy,            \* who closed the link last: "none", "host", "reader"
  fw_rejected,       \* cmd_P2_O50 found the firmware older than 9.0.9
  dev_alive,         \* the device still sends its heartbeat
  has_sdcard,        \* the configuration has a [virtual_sdcard] section
  has_pause,         \* the configuration has a [pause_resume] section
  conn_left,         \* connections the operator may still open
  host_left,         \* host commands the operator may still issue
  lines_left         \* lines the device may still send

link == <<serial, is_open, nconn, thread_serial>>
threads == <<read_pc, write_pc, raw_line, lastHeartbeatSend>>
session == <<files, omega_algorithms, omega_algorithms_counter, omega_splices,
             omega_splices_counter, omega_pings, omega_pongs, omega_current_ping,
             omega_header, omega_header_counter, omega_last_command, omega_drivers,
             omega_drives>>
queue == <<write_queue, enq>>
host == <<resp, scripts>>
env == <<dev_alive, has_sdcard, has_pause, conn_left, host_left, lines_left>>
hist == <<wire, sess_start, discBy, fw_rejected>>
vars == <<link, threads, now, heartbeat, is_printing, session, queue, host, startTs,
          matched, env, hist>>

\* ------------------------------------------------------------ construction
HeaderSlots == 0 .. 8

\* omega_header = [None] * 9
EmptyHeader == [i \in HeaderSlots |-> None]

\* Palette2.__init__, and what the operator and the device may do afterwards
Setup(connects, hostCmds, devLines) ==
  /\ serial = 0 /\ is_open = {} /\ nconn = 0 /\ thread_serial = 0
  /\ read_pc = "None" /\ write_pc = "None" /\ raw_line = << >>
  /\ now = 1 /\ heartbeat = << >> /\ lastHeartbeatSend = 0
  /\ write_queue = << >> /\ enq = << >>
  /\ is_printing = FALSE
  /\ files = << >>
  /\ omega_algorithms = << >> /\ omega_algorithms_counter = 0
  /\ omega_splices = << >> /\ omega_splices_counter = 0
  /\ omega_pings = << >> /\ omega_pongs = << >>
  /\ omega_current_ping = None
  /\ omega_header = EmptyHeader /\ omega_header_counter = 0
  /\ omega_last_command = ""
  /\ omega_drivers = << >>
  /\ omega_drives = << >>
  /\ resp = "" /\ scripts = << >> /\ wire = << >>
  /\ startTs = << >> /\ matched = << >>
  /\ sess_start = 0 /\ discBy = "none" /\ fw_rejected = FALSE
  /\ dev_alive = TRUE
  /\ has_sdcard \in BOOLEAN /\ has_pause \in BOOLEAN
  /\ conn_left = connects /\ host_left = hostCmds /\ lines_left = devLines

\* self.write_queue.put(x) for each x of xs, in order
Put(xs) ==
  /\ write_queue' = write_queue \o xs
  /\ enq' = enq \o xs

\* a reset that empties the tables and leaves the counters where they are
_reset_keeps_counters ==
  /\ files' = << >>
  /\ omega_algorithms' = << >> /\ omega_splices' = << >>
  /\ omega_pings' = << >> /\ omega_pongs' = << >>
  /\ omega_current_ping' = None
  /\ omega_last_command' = ""
  /\ omega_drivers' = << >>
  /\ UNCHANGED <<omega_algorithms_counter, omega_splices_counter, omega_header_counter>>

\* Palette2._reset: the fields it assigns, but for omega_header, which its
\* caller cmd_O21 assigns again: cmd_O21 states the header after both
_reset ==
  /\ files' = << >>
  /\ omega_algorithms' = << >> /\ omega_algorithms_counter' = 0
  /\ omega_splices' = << >> /\ omega_splices_counter' = 0
  /\ omega_pings' = << >> /\ omega_pongs' = << >>
  /\ omega_current_ping' = None
  /\ omega_header_counter' = 0
  /\ omega_last_command' = ""
  /\ omega_drivers' = << >>

\* Palette2._check_P2
_check_P2 == serial /= 0

\* ------------------------------------------------------------ host commands
\* cmd_Connect without its test of self.serial: it opens a port over the
\* active one
cmd_Connect_unguarded ==
  /\ UNCHANGED <<startTs, matched>>
  /\ UNCHANGED <<raw_line, lastHeartbeatSend, now, heartbeat, is_printing, session,
                 queue, scripts, dev_alive, has_sdcard, has_pause, host_left, lines_left,
                 wire, discBy, fw_rejected, thread_serial, read_pc, write_pc>>
  /\ has_sdcard /\ has_pause
  /\ conn_left > 0
  /\ conn_left' = conn_left - 1
  /\ nconn' = nconn + 1
  /\ serial' = nconn + 1
  /\ is_open' = is_open \cup {nconn + 1}
  /\ sess_start' = Len(enq)
  /\ resp' = ""

\* Palette2.cmd_Connect (PALETTE_CONNECT)
cmd_Connect ==
  /\ UNCHANGED <<startTs, matched>>
  /\ UNCHANGED <<raw_line, lastHeartbeatSend, now, heartbeat, is_printing, session,
                 queue, scripts, dev_alive, has_sdcard, has_pause, host_left, lines_left,
                 wire, discBy, fw_rejected>>
  /\ IF ~has_sdcard
       THEN /\ resp' = ERR_NO_SDCARD
            /\ UNCHANGED <<link, read_pc, write_pc, sess_start, conn_left>>
     ELSE IF ~has_pause
       THEN /\ resp' = ERR_NO_PAUSE
            /\ UNCHANGED <<link, read_pc, write_pc, sess_start, conn_left>>
     ELSE IF serial /= 0
       THEN /\ resp' = INFO_ALREADY_ACTIVE
            /\ UNCHANGED <<link, read_pc, write_pc, sess_start, conn_left>>
     ELSE
       /\ conn_left > 0
       /\ conn_left' = conn_left - 1
       /\ nconn' = nconn + 1
       /\ serial' = nconn + 1
       /\ is_open' = is_open \cup {nconn + 1}
       /\ sess_start' = Len(enq)
       /\ IF read_pc = "None"
            THEN \* both Thread objects are created on this Serial object and started
                 /\ thread_serial' = nconn + 1
                 /\ read_pc' = "test"
                 /\ write_pc' = "init0"
                 /\ resp' = ""
            ELSE \* Thread.start() of a thread that was started before raises
                 /\ resp' = ERR_THREAD_START
                 /\ UNCHANGED <<thread_serial, read_pc, write_pc>>

\* Palette2.cmd_Disconnect, called by the host command and by _run_Read
cmd_Disconnect(by) ==
  IF serial /= 0
    THEN /\ is_open' = is_open \ {serial}
         /\ serial' = 0
         /\ discBy' = by
    ELSE UNCHANGED <<serial, is_open, discBy>>

\* PALETTE_DISCONNECT
PALETTE_DISCONNECT ==
  /\ UNCHANGED <<startTs, matched>>
  /\ cmd_Disconnect("host")
  /\ resp' = ""
  /\ UNCHANGED <<nconn, thread_serial, threads, now, heartbeat, is_printing, session,
                 queue, scripts, env, wire, sess_start, fw_rejected>>

\* Palette2.cmd_Clear (PALETTE_CLEAR)
cmd_Clear ==
  /\ UNCHANGED <<startTs, matched>>
  /\ host_left > 0
  /\ host_left' = host_left - 1
  /\ IF _check_P2
       THEN Put(COMMAND_CLEAR) /\ resp' = ""
       ELSE resp' = INFO_NOT_CONNECTED /\ UNCHANGED queue
  /\ UNCHANGED <<link, threads, now, heartbeat, is_printing, session, scripts,
                 dev_alive, has_sdcard, has_pause, conn_left, lines_left, hist>>

\* cmd_Cut without its call of _check_P2
cmd_Cut_unchecked ==
  /\ UNCHANGED <<startTs, matched>>
  /\ host_left > 0
  /\ host_left' = host_left - 1
  /\ Put(<<COMMAND_CUT>>) /\ resp' = ""
  /\ UNCHANGED <<link, threads, now, heartbeat, is_printing, session, scripts,
                 dev_alive, has_sdcard, has_pause, conn_left, lines_left, hist>>

\* Palette2.cmd_Cut (PALETTE_CUT)
cmd_Cut ==
  /\ UNCHANGED <<startTs, matched>>
  /\ host_left > 0
  /\ host_left' = host_left - 1
  /\ IF _check_P2
       THEN Put(<<COMMAND_CUT>>) /\ resp' = ""
       ELSE resp' = INFO_NOT_CONNECTED /\ UNCHANGED queue
  /\ UNCHANGED <<link, threads, now, heartbeat, is_printing, session, scripts,
                 dev_alive, has_sdcard, has_pause, conn_left, lines_left, hist>>

\* Palette2.cmd_O21: the print-version opcode starts a new print session
cmd_O21(line) ==
  /\ UNCHANGED <<startTs, matched>>
  /\ host_left > 0
  /\ host_left' = host_left - 1
  /\ _reset
  /\ omega_header' = [EmptyHeader EXCEPT ![0] = line]
  /\ is_printing' = TRUE
  /\ resp' = ""
  /\ UNCHANGED <<link, threads, now, heartbeat, omega_drives, queue, scripts,
                 dev_alive, has_sdcard, has_pause, conn_left, lines_left, hist>>

\* cmd_O1 after its while loop, at time t: the heartbeat is tested, then
\* the line is forwarded and the host paused.  Where None < float is
\* evaluated at all (Python 2), it is True.
O1_after_wait(line, t) ==
  /\ startTs' = << >>
  /\ IF heartbeat = << >> \/ heartbeat[1] < t - HEARTBEAT_TIMEOUT
       THEN /\ resp' = ERR_NO_RESPONSE
            /\ UNCHANGED <<queue, scripts>>
       ELSE /\ Put(<<line>>)
            /\ scripts' = Append(scripts, "PAUSE")
            /\ resp' = INFO_WAITING

\* Palette2.cmd_O1, up to its first time.sleep(1) or to its end.  With no
\* heartbeat yet the while test compares None with a float: a TypeError
\* under Python 3, True under Python 2.
cmd_O1(line) ==
  /\ UNCHANGED matched
  /\ startTs = << >>
  /\ host_left > 0
  /\ host_left' = host_left - 1
  /\ UNCHANGED <<link, threads, now, heartbeat, is_printing, session, dev_alive,
                 has_sdcard, has_pause, conn_left, lines_left, hist>>
  /\ IF ~_check_P2
       THEN /\ resp' = INFO_NOT_CONNECTED
            /\ UNCHANGED <<queue, scripts, startTs>>
     ELSE IF heartbeat = << >>
       THEN \/ /\ resp' = ERR_NONE_COMPARE
               /\ UNCHANGED <<queue, scripts, startTs>>
            \/ /\ startTs' = <<now>>
               /\ UNCHANGED <<queue, host>>
     ELSE O1_after_wait(line, now)

\* Palette2.cmd_O1 wakes from time.sleep(1) and tests its while condition
cmd_O1_wake(line) ==
  /\ UNCHANGED matched
  /\ startTs /= << >>
  /\ now' = now + 1
  /\ UNCHANGED <<link, threads, heartbeat, is_printing, session, env, hist>>
  /\ IF heartbeat = << >> /\ startTs[1] > now' - HEARTBEAT_TIMEOUT
       THEN UNCHANGED <<queue, host, startTs>>
       ELSE O1_after_wait(line, now')

\* gcmd.get_commandline()[4:].split() of the inputs line
InputParams(line) ==
  CASE line = "O25 D1PLA D0 D1PETG" -> <<"D1PLA", "D0", "D1PETG">>
    [] line = "O25 D0 D1PLA"        -> <<"D0", "D1PLA">>
    [] OTHER                        -> << >>

\* drives[idx][:2]
Prefix2(tok) ==
  CASE tok \in {"D1PLA", "D1PETG"} -> "D1"
    [] OTHER -> tok

\* Palette2.cmd_O25: the inputs line is header slot 4 and gives the drive map
cmd_O25(line) ==
  /\ UNCHANGED <<startTs, matched>>
  /\ host_left > 0
  /\ host_left' = host_left - 1
  /\ omega_header' = [omega_header EXCEPT ![4] = line]
  /\ LET given == InputParams(line)
         drives == [i \in 1 .. Len(given) |->
                      IF Prefix2(given[i]) = "D1"
                        THEN "U" \o ToString(60 + (i - 1))
                        ELSE given[i]]
     IN omega_drives' = << SelectSeq(drives, LAMBDA d : d /= "D0") >>
  /\ resp' = ""
  /\ UNCHANGED <<link, threads, now, heartbeat, is_printing, files, omega_algorithms,
                 omega_algorithms_counter, omega_splices, omega_splices_counter,
                 omega_pings, omega_pongs, omega_current_ping, omega_header_counter,
                 omega_last_command, omega_drivers, queue, scripts, dev_alive,
                 has_sdcard, has_pause, conn_left, lines_left, hist>>

\* gcmd.get_commandline()[5:6] and [8:] of a splice line
SpliceDrive(line) ==
  CASE line = "O30 D0 D12.5" -> "0"
    [] line = "O30 D1 D50"   -> "1"
    [] line = "O30 DX D8"    -> "X"
    [] OTHER                 -> ""
SpliceDistance(line) ==
  CASE line = "O30 D0 D12.5" -> "12.5"
    [] line = "O30 D1 D50"   -> "50"
    [] line = "O30 DX D8"    -> "8"
    [] OTHER                 -> ""

\* Palette2.cmd_O30: a splice is added to the splice table
cmd_O30(line) ==
  /\ UNCHANGED <<startTs, matched>>
  /\ host_left > 0
  /\ host_left' = host_left - 1
  /\ IF IntOf(SpliceDrive(line)) /= << >>
       THEN /\ omega_splices' = Append(omega_splices,
                                   <<IntOf(SpliceDrive(line))[1], SpliceDistance(line)>>)
            /\ resp' = ""
       ELSE /\ resp' = "Incorrectly formatted splice command"
            /\ UNCHANGED omega_splices
  /\ UNCHANGED <<link, threads, now, heartbeat, is_printing, files, omega_algorithms,
                 omega_algorithms_counter, omega_splices_counter, omega_pings,
                 omega_pongs, omega_current_ping, omega_header, omega_header_counter,
                 omega_last_command, omega_drivers, omega_drives, queue, scripts,
                 dev_alive, has_sdcard, has_pause, conn_left, lines_left, hist>>

\* gcmd.get_commandline()[4:] of an algorithm line
AlgorithmBody(line) ==
  CASE line = "O32 D1 D2 D3" -> "D1 D2 D3"
    [] OTHER                 -> ""

\* Palette2.cmd_O32: an algorithm is added to the algorithm table
cmd_O32(line) ==
  /\ UNCHANGED <<startTs, matched>>
  /\ host_left > 0
  /\ host_left' = host_left - 1
  /\ omega_algorithms' = Append(omega_algorithms, AlgorithmBody(line))
  /\ resp' = ""
  /\ UNCHANGED <<link, threads, now, heartbeat, is_printing, files,
                 omega_algorithms_counter, omega_splices, omega_splices_counter,
                 omega_pings, omega_pongs, omega_current_ping, omega_header,
                 omega_header_counter, omega_last_command, omega_drivers, omega_drives,
                 queue, scripts, dev_alive, has_sdcard, has_pause, conn_left,
                 lines_left, hist>>

\* time.time() returns the value of its last call or a later one.  The clock
\* of the model is sampled where one of the two periods of the program has
\* just not, or has just, run out: HEARTBEAT_SEND or HEARTBEAT_SEND + 1
\* seconds later (and so 10, 11, 12 seconds later), up to maxTime
Clock(maxTime) ==
  {now} \cup {t \in {now + HEARTBEAT_SEND, now + HEARTBEAT_SEND + 1} : t <= maxTime}

\* the device falls silent: it sends no heartbeat from now on
DeviceStops ==
  /\ UNCHANGED <<startTs, matched>>
  /\ dev_alive
  /\ dev_alive' = FALSE
  /\ UNCHANGED <<link, threads, now, heartbeat, is_printing, session, queue, host,
                 has_sdcard, has_pause, conn_left, host_left, lines_left, hist>>

\* ------------------------------------------------- device-response handlers
\* what a handler called from cmd_P2 may change
handled == <<is_printing, session, queue, scripts, fw_rejected>>

\* virtual_sdcard.get_file_list(check_subdirs=True), the names only
SDCardFiles == << "a.mcf.gcode", "notes.gcode", "b.mcf.gcode" >>

\* a filter that takes every file of the card
IsMcf_every_file(file) == file \in {"a.mcf.gcode", "notes.gcode", "b.mcf.gcode"}

\* ".mcf.gcode" in file
IsMcf(file) == file \in {"a.mcf.gcode", "b.mcf.gcode"}

\* a splice line with its two fields in the other order
SpliceLine_swapped(splice) == "O30 D" \o splice[2] \o " D" \o ToString(splice[1])

\* "O30 D%d D%s" % (splice[0], splice[1])
SpliceLine(splice) == "O30 D" \o ToString(splice[1]) \o " D" \o splice[2]

\* cmd_P2_O20 raises: params[0] of an empty list, or an index past its table
cmd_P2_O20_raises(params) ==
  /\ is_printing
  /\ \/ params = << >>
     \/ /\ params /= << >>
        /\ params[1] /= Tok("D", "5")
        /\ LET n == IntOf(params[1][2]) IN
             /\ n /= << >>
             /\ \/ n[1] = 0 /\ omega_header_counter \notin HeaderSlots
                \/ n[1] = 1 /\ omega_splices_counter >= Len(omega_splices)
                \/ n[1] = 4 /\ omega_algorithms_counter >= Len(omega_algorithms)

\* Palette2.cmd_P2_O20: the device asks for the next piece of print data
cmd_P2_O20(params) ==
  /\ UNCHANGED <<is_printing, files, omega_algorithms, omega_splices, omega_pings,
                 omega_pongs, omega_current_ping, omega_header, omega_last_command,
                 omega_drivers, omega_drives, scripts, fw_rejected>>
  /\ IF ~is_printing \/ params[1] = Tok("D", "5") \/ IntOf(params[1][2]) = << >>
       THEN UNCHANGED <<queue, omega_header_counter, omega_splices_counter,
                        omega_algorithms_counter>>
       ELSE LET n == IntOf(params[1][2])[1] IN
         CASE n = 0 ->
                /\ Put(<<omega_header[omega_header_counter]>>)
                /\ omega_header_counter' = omega_header_counter + 1
                /\ UNCHANGED <<omega_splices_counter, omega_algorithms_counter>>
           [] n = 1 ->
                /\ Put(<<SpliceLine(omega_splices[omega_splices_counter + 1])>>)
                /\ omega_splices_counter' = omega_splices_counter + 1
                /\ UNCHANGED <<omega_header_counter, omega_algorithms_counter>>
           [] n = 2 ->
                /\ Put(<<omega_current_ping>>)
                /\ UNCHANGED <<omega_header_counter, omega_splices_counter,
                               omega_algorithms_counter>>
           [] n = 4 ->
                /\ Put(<<omega_algorithms[omega_algorithms_counter + 1]>>)
                /\ omega_algorithms_counter' = omega_algorithms_counter + 1
                /\ UNCHANGED <<omega_header_counter, omega_splices_counter>>
           [] n = 8 ->
                /\ Put(<<omega_last_command>>)
                /\ UNCHANGED <<omega_header_counter, omega_splices_counter,
                               omega_algorithms_counter>>
           [] OTHER ->
                UNCHANGED <<queue, omega_header_counter, omega_splices_counter,
                            omega_algorithms_counter>>

\* cmd_P2_O34 raises: float() of a field that is no number
cmd_P2_O34_raises(params) ==
  is_printing /\ Len(params) > 2 /\ FloatOf(params[2][2]) = << >>

\* Palette2.cmd_P2_O34: the device reports a ping or a pong
cmd_P2_O34(params) ==
  /\ UNCHANGED <<is_printing, files, omega_algorithms, omega_algorithms_counter,
                 omega_splices, omega_splices_counter, omega_current_ping, omega_header,
                 omega_header_counter, omega_last_command, omega_drivers, omega_drives,
                 queue, scripts, fw_rejected>>
  /\ IF is_printing /\ Len(params) > 2
       THEN LET percent == FloatOf(params[2][2])[1] IN
         IF params[1] = Tok("D", "1")
           THEN /\ omega_pings' = Append(omega_pings,
                                   [number |-> Len(omega_pings) + 1, percent |-> percent])
                /\ UNCHANGED omega_pongs
         ELSE IF params[1] = Tok("D", "2")
           THEN /\ omega_pongs' = Append(omega_pongs,
                                   [number |-> Len(omega_pongs) + 1, percent |-> percent])
                /\ UNCHANGED omega_pings
         ELSE UNCHANGED <<omega_pings, omega_pongs>>
       ELSE UNCHANGED <<omega_pings, omega_pongs>>

\* cmd_P2_O50 raises: command_error for a firmware older than 9.0.9 (and the
\* unbound virtual_sdcard when the lookup failed)
cmd_P2_O50_raises(params) ==
  IF Len(params) > 1 THEN StrLess(params[1][2], "9.0.9") ELSE ~has_sdcard

\* Palette2.cmd_P2_O50: the firmware version, or the request for the file list
cmd_P2_O50(params) ==
  /\ UNCHANGED <<is_printing, omega_algorithms, omega_algorithms_counter, omega_splices,
                 omega_splices_counter, omega_pings, omega_pongs, omega_current_ping,
                 omega_header, omega_header_counter, omega_last_command, omega_drivers,
                 omega_drives, scripts, fw_rejected>>
  /\ IF Len(params) > 1
       THEN UNCHANGED <<files, queue>>
       ELSE LET found == SelectSeq(SDCardFiles, IsMcf) IN
              /\ files' = found
              /\ Put([i \in 1 .. Len(found) |-> COMMAND_FILENAME \o " D" \o found[i]]
                     \o <<COMMAND_FILENAMES_DONE>>)

\* self.files[::-1]
Reversed(xs) == [i \in 1 .. Len(xs) |-> xs[Len(xs) + 1 - i]]

\* xs[idx] of a Python list: <<x>> the element, << >> IndexError.  A negative
\* idx counts from the end.
ListItem(xs, idx) ==
  IF 0 <= idx /\ idx < Len(xs) THEN <<xs[idx + 1]>>
  ELSE IF idx < 0 /\ 0 - idx <= Len(xs) THEN <<xs[Len(xs) + idx + 1]>>
  ELSE << >>

\* Palette2.cmd_P2_O53: the device selects a file of the list it was sent;
\* the try block contains every failure
cmd_P2_O53(params) ==
  /\ UNCHANGED <<is_printing, session, queue, fw_rejected>>
  /\ IF Len(params) > 1 /\ params[1] = Tok("D", "1")
       THEN LET idx == HexOf(params[2][2])
                file == IF idx = << >> THEN << >> ELSE ListItem(Reversed(files), idx[1])
            IN IF file = << >>
                 THEN UNCHANGED scripts
                 ELSE scripts' = Append(scripts, "SDCARD_PRINT_FILE FILENAME=" \o file[1])
       ELSE UNCHANGED scripts

\* Palette2.cmd_P2_O40: the device asks to resume
cmd_P2_O40(params) ==
  /\ scripts' = Append(scripts, "RESUME")
  /\ UNCHANGED <<is_printing, session, queue, fw_rejected>>

\* Palette2.cmd_P2_O100: the device asks to pause
cmd_P2_O100(params) ==
  /\ scripts' = Append(scripts, "RESUME")
  /\ UNCHANGED <<is_printing, session, queue, fw_rejected>>

\* Palette2.cmd_P2_O88: the device reports an error, which is logged
cmd_P2_O88(params) == UNCHANGED handled

\* the handling table cmd_P2_O97 builds: [action, count, expected values...]
Matchers ==
  (IF is_printing
     THEN << [action |-> "printCancelling", count |-> 2,
              expect |-> <<Tok("U", "0"), Tok("D", "2")>>],
             [action |-> "printCancelled", count |-> 2,
              expect |-> <<Tok("U", "0"), Tok("D", "3")>>],
             [action |-> "loadingOffsetStart", count |-> 1, expect |-> <<Tok("U", "39")>>],
             [action |-> "loadingOffset", count |-> 2, expect |-> <<Tok("U", "39")>>] >>
     ELSE << >>)
  \o << [action |-> "feedrateStart", count |-> 2,
         expect |-> <<Tok("U", "25"), Tok("D", "0")>>],
        [action |-> "feedrateEnd", count |-> 2,
         expect |-> <<Tok("U", "25"), Tok("D", "1")>>] >>

\* len(params) > matcher[1] and all(match_params[i] == params[i] ...)
MatcherFits(matcher, params) ==
  /\ Len(params) > matcher.count
  /\ \A i \in 1 .. Len(matcher.expect) : matcher.expect[i] = params[i]

\* a matcher that lets the last fitting entry of the table fire
_param_Matcher_last(matchers, params) ==
  LET fit == {k \in 1 .. Len(matchers) : MatcherFits(matchers[k], params)} IN
    IF fit = {} THEN ""
    ELSE matchers[CHOOSE k \in fit : \A j \in fit : j <= k].action

\* Palette2._param_Matcher: the entries are tried in order; the action of the
\* first that fits is called ("" when none fits and the result is False)
RECURSIVE _param_Matcher(_, _)
_param_Matcher(matchers, params) ==
  IF matchers = << >> THEN ""
  ELSE IF MatcherFits(Head(matchers), params) THEN Head(matchers).action
  ELSE _param_Matcher(Tail(matchers), params)

\* cmd_P2_O97 raises: loadingOffset is called on a field that is no number
cmd_P2_O97_raises(params) ==
  /\ _param_Matcher(Matchers, params) = "loadingOffset"
  /\ HexOf(params[2][2]) = << >>

\* Palette2.cmd_P2_O97: the status reports of the device, by the action of
\* the handling table that is called
cmd_P2_O97(params) ==
  LET action == _param_Matcher(Matchers, params) IN
    /\ UNCHANGED <<session, queue, fw_rejected>>
    /\ is_printing' = IF action = "printCancelled" THEN FALSE ELSE is_printing
    /\ scripts' = CASE action = "printCancelling" -> Append(scripts, "CANCEL_PRINT")
                    [] action = "feedrateStart"   -> Append(scripts, "M220 S80")
                    [] action = "feedrateEnd"     -> Append(scripts, "M220 S100")
                    [] OTHER                      -> scripts

\* the check of the parameter sigils in cmd_P2: res keeps the tokens that
\* start with D or U, and all(res) is the truth of each token kept
ParamsPass(params) ==
  LET res == SelectSeq(params, LAMBDA i : i[1] = "D" \/ i[1] = "U") IN
    \A k \in 1 .. Len(res) : Len(res[k]) > 0

\* the opcodes for which getattr(self, 'cmd_P2_' + ocode) finds a method of
\* this model
Ocode(line) == line[1][1] \o line[1][2]

\* the dispatch of cmd_P2 raises
cmd_P2_raises(line) ==
  LET params == Tail(line) IN
    /\ (params /= << >> => ParamsPass(params))
    /\ CASE Ocode(line) = "O20" -> cmd_P2_O20_raises(params)
         [] Ocode(line) = "O34" -> cmd_P2_O34_raises(params)
         [] Ocode(line) = "O50" -> cmd_P2_O50_raises(params)
         [] Ocode(line) = "O97" -> cmd_P2_O97_raises(params)
         [] OTHER -> FALSE

\* Palette2.cmd_P2: a device line that starts with "O"
cmd_P2(line) ==
  LET params == Tail(line) IN
    IF params /= << >> /\ ~ParamsPass(params)
      THEN UNCHANGED handled
      ELSE CASE Ocode(line) = "O20" -> cmd_P2_O20(params)
             [] Ocode(line) = "O34" -> cmd_P2_O34(params)
             [] Ocode(line) = "O50" -> cmd_P2_O50(params)
             [] Ocode(line) = "O53" -> cmd_P2_O53(params)
             [] Ocode(line) = "O40" -> cmd_P2_O40(params)
             [] Ocode(line) = "O100" -> cmd_P2_O100(params)
             [] Ocode(line) = "O88" -> cmd_P2_O88(params)
             [] Ocode(line) = "O97" -> cmd_P2_O97(params)
             [] OTHER -> UNCHANGED handled

\* ------------------------------------------------------------- reader thread
\* the heartbeat check with the period of the own heartbeat for the timeout
HeartbeatDead_send_period(hb, t) ==
  hb /= << >> /\ hb[1] /= 0 /\ hb[1] < t - HEARTBEAT_SEND

\* self.heartbeat and self.heartbeat < (time.time() - HEARTBEAT_TIMEOUT)
HeartbeatDead(hb, t) ==
  hb /= << >> /\ hb[1] /= 0 /\ hb[1] < t - HEARTBEAT_TIMEOUT

\* the calls _param_Matcher makes while the line read is handled: cmd_P2
\* passes an O97 line to cmd_P2_O97, whose table is searched
Calls(raw) ==
  IF raw = << >> \/ raw[1] = << >> \/ raw[1] = LINE_HEARTBEAT THEN << >>
  ELSE LET line == raw[1]
           params == Tail(line)
       IN IF /\ line[1][1] = "O" /\ Ocode(line) = "O97"
             /\ (params /= << >> => ParamsPass(params))
             /\ _param_Matcher(Matchers, params) /= ""
            THEN << <<_param_Matcher(Matchers, params), params>> >>
            ELSE << >>

\* _run_Read: the first evaluation of while serial.is_open, when the thread
\* starts; the later ones end run_Read_handle
run_Read_test ==
  /\ UNCHANGED <<startTs, matched>>
  /\ read_pc = "test"
  /\ read_pc' = IF thread_serial \in is_open THEN "read" ELSE "done"
  /\ UNCHANGED <<link, write_pc, raw_line, lastHeartbeatSend, now, heartbeat,
                 is_printing, session, queue, host, env, hist>>

\* _run_Read: raw_line = serial.readline(), a line of Lines or the timeout; on
\* a port closed meanwhile the call returns nothing or raises
run_Read_readline(Lines) ==
  /\ UNCHANGED <<startTs, matched>>
  /\ read_pc = "read"
  /\ UNCHANGED <<link, write_pc, lastHeartbeatSend, now, heartbeat, is_printing,
                 session, queue, host, dev_alive, has_sdcard, has_pause, conn_left,
                 host_left, hist>>
  /\ IF thread_serial \in is_open
       THEN \/ /\ raw_line' = << >>
               /\ read_pc' = "handle"
               /\ UNCHANGED lines_left
            \/ /\ lines_left > 0
               /\ \E line \in Lines :
                    /\ (line = LINE_HEARTBEAT => dev_alive)
                    /\ raw_line' = <<line>>
               /\ lines_left' = lines_left - 1
               /\ read_pc' = "handle"
       ELSE /\ raw_line' = << >>
            /\ read_pc' \in {"handle", "dead"}
            /\ UNCHANGED lines_left

\* _run_Read: the heartbeat check that ends every iteration, and the loop
\* test that follows it
run_Read_check ==
  /\ IF HeartbeatDead(heartbeat', now')
       THEN cmd_Disconnect("reader")
       ELSE UNCHANGED <<serial, is_open, discBy>>
  /\ read_pc' = IF thread_serial \in is_open' THEN "read" ELSE "done"

\* an exception leaves _run_Read and ends the thread
run_Read_dies ==
  /\ read_pc' = "dead"
  /\ UNCHANGED <<serial, is_open, discBy>>

\* _run_Read: the line read is classified and dispatched, then the heartbeat
\* is checked.  raw_line is not read again before the next readline.
run_Read_handle(T) ==
  /\ UNCHANGED startTs
  /\ matched' = matched \o Calls(raw_line)
  /\ read_pc = "handle"
  /\ now' \in T
  /\ raw_line' = << >>
  /\ UNCHANGED <<nconn, thread_serial, write_pc, lastHeartbeatSend, resp, env,
                 wire, sess_start>>
  /\ IF raw_line = << >>
       THEN UNCHANGED <<heartbeat, handled>> /\ run_Read_check
     ELSE LET text_line == raw_line[1] IN
       IF text_line = LINE_HEARTBEAT
         THEN heartbeat' = <<now'>> /\ UNCHANGED handled /\ run_Read_check
       ELSE IF text_line = << >>
         THEN \* text_line[0] of the empty string
              UNCHANGED <<heartbeat, handled>> /\ run_Read_dies
       ELSE IF text_line[1][1] = "O"
         THEN IF cmd_P2_raises(text_line)
                THEN /\ fw_rejected' = (fw_rejected \/ Ocode(text_line) = "O50")
                     /\ UNCHANGED <<heartbeat, is_printing, session, queue, scripts>>
                     /\ run_Read_dies
                ELSE cmd_P2(text_line) /\ UNCHANGED heartbeat /\ run_Read_check
       ELSE UNCHANGED <<heartbeat, handled>> /\ run_Read_check

\* ------------------------------------------------------------- writer thread
\* _run_Write: lastHeartbeatSend = time.time() and the three puts that open
\* the session, one step each
run_Write_init(T) ==
  /\ UNCHANGED <<startTs, matched>>
  /\ write_pc \in {"init0", "init1", "init2"}
  /\ CASE write_pc = "init0" ->
            /\ now' \in T
            /\ lastHeartbeatSend' = now'
            /\ Put(<<"\n">>)
            /\ write_pc' = "init1"
       [] write_pc = "init1" ->
            /\ UNCHANGED <<now, lastHeartbeatSend>>
            /\ Put(<<COMMAND_HEARTBEAT>>)
            /\ write_pc' = "init2"
       [] write_pc = "init2" ->
            /\ UNCHANGED <<now, lastHeartbeatSend>>
            /\ Put(<<COMMAND_FIRMWARE>>)
            /\ write_pc' = "test"
  /\ UNCHANGED <<link, read_pc, raw_line, heartbeat, is_printing, session, host,
                 env, hist>>

\* _run_Write: the first evaluation of while serial.is_open, after the three
\* puts; the later ones end run_Write_body
run_Write_test ==
  /\ UNCHANGED <<startTs, matched>>
  /\ write_pc = "test"
  /\ write_pc' = IF thread_serial \in is_open THEN "body" ELSE "exit"
  /\ UNCHANGED <<link, read_pc, raw_line, lastHeartbeatSend, now, heartbeat,
                 is_printing, session, queue, host, env, hist>>

\* a get that takes the newest entry, as of a LifoQueue
QueueGet_newest(q) == <<q[Len(q)], SubSeq(q, 1, Len(q) - 1)>>

\* self.write_queue.get(True, 0.5) on a queue that is not empty: the entry
\* taken and the queue left
QueueGet(q) == <<Head(q), Tail(q)>>

\* _run_Write: one iteration: the get (or its timeout on an empty queue), the
\* write to the port, which raises on a closed port, the heartbeat routine, and
\* the loop test that follows it
run_Write_body(T) ==
  /\ UNCHANGED <<startTs, matched>>
  /\ write_pc = "body"
  /\ now' \in T
  /\ UNCHANGED <<link, read_pc, raw_line, heartbeat, is_printing, files,
                 omega_algorithms, omega_algorithms_counter, omega_splices,
                 omega_splices_counter, omega_pings, omega_pongs, omega_current_ping,
                 omega_header, omega_header_counter, omega_drivers, omega_drives,
                 host, env, sess_start, discBy, fw_rejected>>
  /\ LET got == write_queue /= << >>
         text_line == QueueGet(write_queue)[1]
         rest == IF got THEN QueueGet(write_queue)[2] ELSE write_queue
         sends == got /\ Truthy(text_line)
         due == lastHeartbeatSend < now' - HEARTBEAT_SEND
     IN
       /\ omega_last_command' = IF sends THEN text_line ELSE omega_last_command
       /\ IF sends /\ thread_serial \notin is_open
            THEN /\ write_pc' = "dead"
                 /\ write_queue' = rest
                 /\ UNCHANGED <<wire, enq, lastHeartbeatSend>>
            ELSE /\ wire' = IF sends THEN Append(wire, Terminated(Strip(text_line)))
                                     ELSE wire
                 /\ write_queue' = IF due THEN Append(rest, COMMAND_HEARTBEAT) ELSE rest
                 /\ enq' = IF due THEN Append(enq, COMMAND_HEARTBEAT) ELSE enq
                 /\ lastHeartbeatSend' = IF due THEN now' ELSE lastHeartbeatSend
                 /\ write_pc' = IF thread_serial \in is_open THEN "body" ELSE "exit"

\* _run_Write: what follows the loop
run_Write_exit ==
  /\ UNCHANGED <<startTs, matched>>
  /\ write_pc = "exit"
  /\ write_queue' = << >>
  /\ heartbeat' = << >>
  /\ is_printing' = FALSE
  /\ write_pc' = "done"
  /\ UNCHANGED <<link, read_pc, raw_line, lastHeartbeatSend, now, session, enq, host,
                 env, hist>>

\* ------------------------------------------------------------ specification
\* the two threads
run_Read(Lines, T) == run_Read_test \/ run_Read_readline(Lines) \/ run_Read_handle(T)
run_Write(T) == run_Write_init(T) \/ run_Write_test \/ run_Write_body(T) \/ run_Write_exit

\* The link: the operator connects and disconnects, cuts and clears, while
\* the device sends heartbeats and blank lines.  The runs of this
\* specification are shorter than a second: the clock stands still.
Init == Setup(MaxConnects, MaxHostCmds, MaxLines)

Next ==
  \/ cmd_Connect
  \/ PALETTE_DISCONNECT
  \/ cmd_Clear
  \/ cmd_Cut
  \/ run_Read_test
  \/ run_Read_readline({LINE_HEARTBEAT, LINE_BLANK})
  \/ run_Read_handle({now})
  \/ run_Write_init({now})
  \/ run_Write_test
  \/ run_Write_body({now})
  \/ run_Write_exit

Spec == Init /\ [][Next]_vars

\* The heartbeat: the operator connects and disconnects, the device sends
\* heartbeats and blank lines until it falls silent, and the clock runs.  A
\* thread that can take a step takes it in the end.
InitHB == Setup(HbConnects, 0, HbLines)

NextHB ==
  \/ cmd_Connect
  \/ PALETTE_DISCONNECT
  \/ DeviceStops
  \/ run_Read_test
  \/ run_Read_readline({LINE_HEARTBEAT, LINE_BLANK})
  \/ run_Read_handle(Clock(MaxTime))
  \/ run_Write_init(Clock(MaxTime))
  \/ run_Write_test
  \/ run_Write_body(Clock(MaxTime))
  \/ run_Write_exit

SpecHB ==
  /\ InitHB
  /\ [][NextHB]_vars
  /\ WF_vars(run_Read({LINE_HEARTBEAT, LINE_BLANK}, Clock(MaxTime)))
  /\ WF_vars(run_Write(Clock(MaxTime)))

\* the print-version line of a print job
VersionLines == {"O21 D0014"}

\* The queue: in one session the operator starts a print and cuts, the
\* device asks for header lines, and the writer adds its heartbeat when the
\* clock says so: three producers.
InitFifo == Setup(1, FifoHostCmds, FifoLines)

NextFifo ==
  \/ cmd_Connect
  \/ PALETTE_DISCONNECT
  \/ cmd_Cut
  \/ \E line \in VersionLines : cmd_O21(line)
  \/ run_Read_test
  \/ run_Read_readline({LINE_O20("0")})
  \/ run_Read_handle(Clock(FifoTime))
  \/ run_Write_init(Clock(FifoTime))
  \/ run_Write_test
  \/ run_Write_body(Clock(FifoTime))
  \/ run_Write_exit

SpecFifo == InitFifo /\ [][NextFifo]_vars

\* The firmware gate: in one session the device reports its version, in
\* the two-parameter and in the one-parameter form.
InitFw == Setup(1, 0, FwLines)

NextFw ==
  \/ cmd_Connect
  \/ PALETTE_DISCONNECT
  \/ run_Read_test
  \/ run_Read_readline({LINE_HEARTBEAT, LINE_O50_VER("9.0.8"), LINE_O50_VER("9.1.0"),
                        LINE_O50_VER("9.0.9"), LINE_O50_VER1("8.2.1")})
  \/ run_Read_handle({now})
  \/ run_Write_init({now})
  \/ run_Write_test
  \/ run_Write_body({now})
  \/ run_Write_exit

SpecFw == InitFw /\ [][NextFw]_vars

\* The print session: the print job sends its version, inputs, splice and
\* algorithm lines in any order, the device its pings and its request for
\* the file list.
InitSession == Setup(1, SessHostCmds, SessLines)

NextSession ==
  \/ cmd_Connect
  \/ \E line \in VersionLines : cmd_O21(line)
  \/ \E line \in {"O25 D1PLA D0 D1PETG"} : cmd_O25(line)
  \/ \E line \in {"O30 D0 D12.5", "O30 DX D8"} : cmd_O30(line)
  \/ \E line \in {"O32 D1 D2 D3"} : cmd_O32(line)
  \/ run_Read_test
  \/ run_Read_readline({LINE_O34("1", "50"), LINE_O50_LIST})
  \/ run_Read_handle({now})
  \/ run_Write_init({now})
  \/ run_Write_test
  \/ run_Write_body({now})

SpecSession == InitSession /\ [][NextSession]_vars

\* The device events: the device asks for the file list and selects a file,
\* asks to pause and to resume, reports its status and its errors, and sends
\* lines that are malformed, before or during a print.
SelectionLines == {LINE_O53(idx) : idx \in {"0", "1", "2", "-1", "zz"}}

StatusLines ==
  { LINE_O97_3(Tok("U", "0"), Tok("D", "2"), Tok("D", "0")),
    LINE_O97_3(Tok("U", "0"), Tok("D", "3"), Tok("D", "0")),
    LINE_O97(Tok("U", "39"), Tok("D", "1")),
    LINE_O97_3(Tok("U", "39"), Tok("D", "zz"), Tok("D", "0")),
    LINE_O97_3(Tok("U", "25"), Tok("D", "0"), Tok("D", "0")),
    LINE_O97_3(Tok("U", "25"), Tok("D", "1"), Tok("D", "0")),
    LINE_O97(Tok("U", "25"), Tok("D", "0")) }

\* lines with a parameter that starts with neither D nor U
MalformedLines ==
  { LINE_O40_X, LINE_O97_3(Tok("U", "25"), Tok("X", "0"), Tok("D", "0")) }

\* lines whose text or numeric field is not what the handler expects
OddLines == {LINE_BLANK, LINE_O20_BARE, LINE_O34("1", "zz"), LINE_O88("zz"), LINE_UNKNOWN}

DeviceLines ==
  {LINE_O50_LIST, LINE_O40, LINE_O100}
    \cup SelectionLines \cup StatusLines \cup MalformedLines \cup OddLines

InitDevice == Setup(1, DevHostCmds, DevLines)

NextDevice ==
  \/ cmd_Connect
  \/ \E line \in VersionLines : cmd_O21(line)
  \/ run_Read_test
  \/ run_Read_readline(DeviceLines)
  \/ run_Read_handle({now})
  \/ run_Write_init({now})
  \/ run_Write_test
  \/ run_Write_body({now})

SpecDevice == InitDevice /\ [][NextDevice]_vars

\* The start of a print: the print job sends its O1 line, before or after
\* the device has answered with its heartbeat.
StartLines == {"O1 D0 DA0"}

InitO1 == Setup(1, O1HostCmds, O1Lines)

NextO1 ==
  \/ cmd_Connect
  \/ \E line \in StartLines : cmd_O1(line)
  \/ \E line \in StartLines : cmd_O1_wake(line)
  \/ run_Read_test
  \/ run_Read_readline({LINE_HEARTBEAT})
  \/ run_Read_handle({now})
  \/ run_Write_init({now})
  \/ run_Write_test
  \/ run_Write_body({now})

SpecO1 == InitO1 /\ [][NextO1]_vars

\* The print data: the print job sends its version, splice and algorithm
\* lines, and the device asks for the headers, the splices and the
\* algorithms one by one.
RequestLines == {LINE_O20("0"), LINE_O20("1"), LINE_O20("4")}

InitData == Setup(1, DataHostCmds, DataLines)

NextData ==
  \/ cmd_Connect
  \/ \E line \in VersionLines : cmd_O21(line)
  \/ \E line \in {"O30 D0 D12.5", "O30 D1 D50"} : cmd_O30(line)
  \/ \E line \in {"O32 D1 D2 D3"} : cmd_O32(line)
  \/ run_Read_test
  \/ run_Read_readline(RequestLines)
  \/ run_Read_handle({now})
  \/ run_Write_init({now})
  \/ run_Write_test
  \/ run_Write_body({now})

SpecData == InitData /\ [][NextData]_vars

\* The counters: the same requests, enough of them to reach the end of the
\* header.  The Writer Loop, which reads and writes none of the tables and
\* counters, is left to SpecData.
InitCount == Setup(1, CountHostCmds, CountLines)

NextCount ==
  \/ cmd_Connect
  \/ \E line \in VersionLines : cmd_O21(line)
  \/ \E line \in {"O30 D0 D12.5", "O30 D1 D50"} : cmd_O30(line)
  \/ \E line \in {"O32 D1 D2 D3"} : cmd_O32(line)
  \/ run_Read_test
  \/ run_Read_readline(RequestLines)
  \/ run_Read_handle({now})

SpecCount == InitCount /\ [][NextCount]_vars

\* ------------------------------------------------------------------ claims
ReaderRunning == read_pc \in {"test", "read", "handle"}
WriterRunning == write_pc \in {"init0", "init1", "init2", "test", "body"}

\* the program state a host command may change, all but the outbound queue
\* and the notice to the operator
AllButQueue == <<link, threads, now, heartbeat, is_printing, session, scripts>>

\* the lines on the wire without their terminator, and what is put on the
\* queue as the writer frames it
Sent == [i \in 1 .. Len(wire) |-> wire[i][1]]
Framed(entries) == [i \in 1 .. Len(entries) |-> Strip(entries[i])]
IsPrefix(a, b) == Len(a) <= Len(b) /\ SubSeq(b, 1, Len(a)) = a

\* C1 as stated: the lines transmitted are the entries enqueued, in the order
\* of their enqueueing, none skipped.
C1_EveryEntryInOrder ==
  IsPrefix(Sent, Framed(enq))

\* C1 as amended: the lines transmitted are the non-empty entries enqueued
\* (neither None nor the empty string), in the order of their enqueueing,
\* each once, each ended by one newline; until the loop is left, what is
\* enqueued and not yet transmitted is what the queue holds.
C1_NonEmptyEntriesInOrder ==
  /\ IsPrefix(Sent, Framed(SelectSeq(enq, Truthy)))
  /\ \A i \in 1 .. Len(wire) : wire[i][2] = "\n"
  /\ write_pc \in {"init0", "init1", "init2", "test", "body", "exit"}
       => Framed(SelectSeq(enq, Truthy))
            = Sent \o Framed(SelectSeq(write_queue, Truthy))

\* C1 witness: the device's request put an empty header slot on the queue,
\* the operator's cut came after it, and the cut went on the wire after the
\* header line the reader had enqueued and the heartbeat of the writer
C1_Witness ==
  \E i, j \in 1 .. Len(enq), k \in 1 .. Len(wire) :
    /\ i < j /\ enq[i] = None /\ enq[j] = COMMAND_CUT
    /\ Sent[k] = COMMAND_CUT
    /\ \E h \in 1 .. k : Sent[h] = "O21 D0014"
    /\ \E h \in 1 .. k : Sent[h] = COMMAND_HEARTBEAT

\* C2: once a heartbeat has been received in a Connected session and the
\* device has then been silent for more than 11 seconds (the heartbeat is
\* older than that, the device sends no more, none is waiting to be
\* handled), the link becomes Disconnected in the end.
C2_SilentDeviceIsDisconnected ==
  (/\ serial /= 0
   /\ heartbeat /= << >> /\ heartbeat[1] < now - 11
   /\ ~dev_alive
   /\ raw_line /= <<LINE_HEARTBEAT>>)
    ~> (serial = 0)

\* C3: the link leaves Connected, other than by the operator's disconnect,
\* only with a heartbeat timestamp that is set and more than 11 seconds old:
\* never before a first heartbeat, never with one of the last 5 seconds.
C3_OnlyDeadHeartbeatDisconnects ==
  [][(serial /= 0 /\ serial' = 0 /\ ~PALETTE_DISCONNECT)
       => (heartbeat' /= << >> /\ heartbeat'[1] < now' - 11)]_vars

\* C3 witness: the reader has closed the link on a heartbeat 12 seconds old
C3_Witness ==
  /\ serial = 0 /\ discBy = "reader"
  /\ heartbeat /= << >> /\ now - heartbeat[1] = 12

\* C4: whenever the link is Connected (self.serial is set), the Reader Loop
\* and the Writer Loop are both running.
C4_LoopsRunWhileConnected ==
  serial /= 0 => ReaderRunning /\ WriterRunning

\* C5: once the link has left Connected and both loops have returned, the
\* Outbound Queue is empty and the heartbeat is "never received".
C5_NothingSurvivesTheSession ==
  (serial = 0 /\ read_pc = "done" /\ write_pc = "done")
    => (write_queue = << >> /\ heartbeat = << >>)

\* C6: in a Connected session the first three entries put on the Outbound
\* Queue are the line-reset token, O99 and O50, in that order: nothing else
\* is enqueued ahead of them.
C6_HandshakeFirst ==
  LET put == SubSeq(enq, sess_start + 1, Len(enq))
      first == <<"\n", "O99", "O50">>
  IN serial /= 0 =>
       \A i \in 1 .. Len(put) : i <= 3 => put[i] = first[i]

\* C7: a connect attempt while Connected tells the operator that the port is
\* already active and changes nothing: not the link, the port, the threads,
\* the queue or the session.
C7_ConnectWhileConnected ==
  [][(serial /= 0 /\ cmd_Connect)
       => (/\ resp' = "Palette 2 serial port is already active, disconnect first"
           /\ UNCHANGED <<AllButQueue, queue, wire, sess_start, discBy>>)]_vars

\* C7 witness: the operator was told so while the link is Connected
C7_Witness ==
  serial /= 0 /\ resp = "Palette 2 serial port is already active, disconnect first"

\* C8: cut and clearBuffers without a connection tell the operator "not
\* connected" and change nothing; with a connection cut appends the one cut
\* command and clearBuffers the six reset lines, in their order, and nothing
\* else changes.
C8_CutAndClear ==
  [][/\ cmd_Cut =>
          /\ UNCHANGED AllButQueue
          /\ IF serial = 0
               THEN /\ resp' = "Palette 2 is not connected, connect first"
                    /\ write_queue' = write_queue
               ELSE write_queue' = Append(write_queue, "O10 D5")
     /\ cmd_Clear =>
          /\ UNCHANGED AllButQueue
          /\ IF serial = 0
               THEN /\ resp' = "Palette 2 is not connected, connect first"
                    /\ write_queue' = write_queue
               ELSE write_queue' = write_queue \o
                      << "O10 D5", "O10 D0 D0 D0 DFFE1", "O10 D1 D0 D0 DFFE1",
                         "O10 D2 D0 D0 DFFE1", "O10 D3 D0 D0 DFFE1",
                         "O10 D4 D0 D0 D0069" >>]_vars

\* C8 witness: with a connection, after a clearBuffers, the six reset lines
\* are the last six entries of the queue
C8_Witness ==
  /\ serial /= 0
  /\ Len(write_queue) >= 6
  /\ SubSeq(write_queue, Len(write_queue) - 5, Len(write_queue)) = COMMAND_CLEAR

\* C9: after the print-version opcode (O21) is handled the session holds
\* nothing of the print before: the splice table, the pings, the pongs, the
\* algorithm table, the file catalog and the drive map are empty, header
\* slots 1..8 are unset and slot 0 holds the new line, the current ping and
\* the last command are cleared, the three counters are zero.
C9_VersionOpcodeResets ==
  [][\A line \in VersionLines : cmd_O21(line) =>
       /\ omega_splices' = << >> /\ omega_pings' = << >> /\ omega_pongs' = << >>
       /\ omega_algorithms' = << >> /\ files' = << >>
       /\ omega_drives' \in {<< >>, << << >> >>}
       /\ omega_header'[0] = line
       /\ \A i \in 1 .. 8 : omega_header'[i] = None
       /\ omega_current_ping' = None /\ omega_last_command' = ""
       /\ omega_header_counter' = 0 /\ omega_splices_counter' = 0
       /\ omega_algorithms_counter' = 0]_vars

\* C10: when the device reports a firmware version (O50 with a version
\* parameter) that is below "9.0.9", the session is aborted: the Reader Loop
\* is not where the error is raised, so the loop outlives the line, and the
\* link does not stay Connected; a version at or above the minimum raises
\* nothing and changes nothing.
C10_FirmwareGate ==
  [][(/\ read_pc = "handle" /\ read_pc' /= "handle"
      /\ raw_line /= << >> /\ raw_line[1] /= << >>
      /\ Ocode(raw_line[1]) = "O50" /\ Len(raw_line[1]) > 1)
       => IF StrLess(raw_line[1][2][2], "9.0.9")
            THEN /\ read_pc' /= "dead"
                 /\ serial' = 0
            ELSE /\ read_pc' /= "dead"
                 /\ UNCHANGED <<link, heartbeat, is_printing, session, queue, host>>]_vars

\* the Reader Loop handles the line it has read, in this step
Handles(line) == read_pc = "handle" /\ read_pc' /= "handle" /\ raw_line = <<line>>

\* C11: when the device sends O50 without a parameter, the catalog becomes
\* the files of the card whose name contains ".mcf.gcode", in the card's
\* order, and what is enqueued is one O51 D<name> per catalog entry, in that
\* order, and then one O52: for a.mcf.gcode, notes.gcode, b.mcf.gcode on the
\* card, O51 Da.mcf.gcode, O51 Db.mcf.gcode, O52.
C11_CatalogIsStreamed ==
  [][Handles(LINE_O50_LIST) =>
       /\ files' = <<"a.mcf.gcode", "b.mcf.gcode">>
       /\ enq' = enq \o <<"O51 Da.mcf.gcode", "O51 Db.mcf.gcode", "O52">>
       /\ write_queue' = write_queue \o <<"O51 Da.mcf.gcode", "O51 Db.mcf.gcode", "O52">>
       /\ read_pc' = "read"]_vars

\* the catalog was streamed: the three lines are the last ones enqueued
C11_Witness ==
  /\ files = <<"a.mcf.gcode", "b.mcf.gcode">>
  /\ Len(enq) >= 3
  /\ SubSeq(enq, Len(enq) - 2, Len(enq)) = <<"O51 Da.mcf.gcode", "O51 Db.mcf.gcode", "O52">>

\* what a step may not change when it is to change no state
Quiet == <<link, heartbeat, is_printing, session, queue, host>>

\* C12: on O53 D1 D<idx> with a catalog of n files, an index i with
\* 0 <= i < n asks the host to print the catalog entry at position n-1-i, and
\* only that; an index outside 0..n-1, or one that is no number, asks for no
\* print and changes nothing; the Reader Loop goes on in both cases.
C12_FileSelection ==
  [][\A idx \in {"0", "1", "2", "-1", "zz"} : Handles(LINE_O53(idx)) =>
       LET n == Len(files)
           i == HexOf(idx)
       IN /\ read_pc' = "read"
          /\ IF i /= << >> /\ 0 <= i[1] /\ i[1] < n
               THEN /\ scripts' = Append(scripts, "SDCARD_PRINT_FILE FILENAME="
                                                    \o files[(n - 1 - i[1]) + 1])
                    /\ UNCHANGED <<link, heartbeat, is_printing, session, queue, resp>>
               ELSE UNCHANGED Quiet]_vars

\* C13: O1 issued while Connected waits at most 11 seconds for the first
\* heartbeat.  When it returns with a heartbeat received that is not older
\* than 11 seconds, the O1 line has been appended to the queue and one PAUSE
\* requested; otherwise it fails with the "no response" error, enqueues
\* nothing and requests no pause, and with no heartbeat at all it does so
\* only once the 11 seconds have passed.  It never waits past the window.
C13_InitializePrint ==
  [][\A line \in StartLines :
       /\ ((cmd_O1(line) \/ cmd_O1_wake(line)) /\ serial /= 0 /\ startTs' = << >>)
            => LET waited == IF startTs = << >> THEN 0 ELSE now' - startTs[1] IN
                 IF heartbeat /= << >> /\ heartbeat[1] >= now' - 11
                   THEN /\ enq' = Append(enq, line)
                        /\ write_queue' = Append(write_queue, line)
                        /\ scripts' = Append(scripts, "PAUSE")
                   ELSE /\ resp' = "No response from Palette 2 when initializing"
                        /\ UNCHANGED <<queue, scripts>>
                        /\ (heartbeat = << >> => waited >= 11)
       /\ (startTs' /= << >> => now' - startTs'[1] <= 11)]_vars

\* C14: a device line with parameters of which one starts with a character
\* other than D or U is dropped: no handler is invoked for it, nothing is
\* enqueued, no host action is requested and the session is unchanged.
C14_MalformedLineIsDropped ==
  [][\A line \in DeviceLines :
       (/\ Handles(line)
        /\ \E i \in 2 .. Len(line) : line[i][1] \notin {"D", "U"})
         => UNCHANGED <<Quiet, matched>>]_vars

\* C15: no line of the device stops the Reader Loop: whatever line it has
\* read, blank, without its parameters, with a numeric field that is no
\* number or with an unknown opcode, the loop handles it and goes on to its
\* next read.
C15_NoLineStopsTheReader ==
  [][\A line \in DeviceLines : Handles(line) => read_pc' = "read"]_vars

\* C20: a resume request of the device (O40) makes the host run exactly one
\* RESUME, a pause request of the device (O100) exactly one PAUSE and no
\* RESUME.
C20_PauseAndResume ==
  [][/\ Handles(LINE_O40) => scripts' = Append(scripts, "RESUME")
     /\ Handles(LINE_O100) => scripts' = Append(scripts, "PAUSE")]_vars

\* an entry of a handling table applies: more parameters than its count are
\* present and its expected values are the first of them
Applies(entry, params) ==
  /\ Len(params) > entry.count
  /\ Len(params) >= Len(entry.expect)
  /\ SubSeq(params, 1, Len(entry.expect)) = entry.expect

\* C19: the matcher is first-match-wins: when a status line is handled, the
\* action called is that of the first entry of the handling table that
\* applies, and it is the only one called, never that of a later entry that
\* applies as well; when no entry applies no action is called.
C19_FirstMatchWins ==
  [][\A line \in StatusLines : Handles(line) =>
       LET params == Tail(line)
           fit == {k \in 1 .. Len(Matchers) : Applies(Matchers[k], params)}
       IN IF fit = {}
            THEN UNCHANGED <<matched, is_printing, scripts>>
            ELSE LET first == CHOOSE k \in fit : \A j \in fit : k <= j IN
                   matched' = Append(matched, <<Matchers[first].action, params>>)]_vars

\* during a print the device has sent O97 U39 Dzz D0, to which two entries
\* of the table apply, and the action of the earlier one was called
C19_Witness ==
  \E i \in 1 .. Len(matched) :
    matched[i] = <<"loadingOffsetStart", <<Tok("U", "39"), Tok("D", "zz"), Tok("D", "0")>> >>

\* the table a data request is for, by the number it carries
RequestFor(line) == line[2][2]

\* C16: while printing, a data request beyond the end of its table (header
\* counter at 9, splice counter at the length of the splice table, algorithm
\* counter at the length of the algorithm table) enqueues nothing, leaves the
\* counters as they are and does not stop the Reader Loop.
C16_RequestBeyondTheEnd ==
  [][\A line \in RequestLines :
       (/\ Handles(line) /\ is_printing
        /\ \/ RequestFor(line) = "0" /\ omega_header_counter = 9
           \/ RequestFor(line) = "1" /\ omega_splices_counter = Len(omega_splices)
           \/ RequestFor(line) = "4" /\ omega_algorithms_counter = Len(omega_algorithms))
         => /\ UNCHANGED <<queue, omega_header_counter, omega_splices_counter,
                           omega_algorithms_counter>>
            /\ read_pc' = "read"]_vars

C18_SequentialConsumption ==
  [][/\ \A line \in RequestLines :
          (Handles(line) /\ is_printing /\ read_pc' = "read") =>
            LET h == omega_header_counter
                s == omega_splices_counter
                a == omega_algorithms_counter
            IN CASE RequestFor(line) = "0" ->
                      /\ enq' = Append(enq, omega_header[h])
                      /\ omega_header_counter' = h + 1
                      /\ UNCHANGED <<omega_splices_counter, omega_algorithms_counter>>
                 [] RequestFor(line) = "1" ->
                      /\ enq' = Append(enq, "O30 D" \o ToString(omega_splices[s + 1][1])
                                              \o " D" \o omega_splices[s + 1][2])
                      /\ omega_splices_counter' = s + 1
                      /\ UNCHANGED <<omega_header_counter, omega_algorithms_counter>>
                 [] RequestFor(line) = "4" ->
                      /\ enq' = Append(enq, omega_algorithms[a + 1])
                      /\ omega_algorithms_counter' = a + 1
                      /\ UNCHANGED <<omega_header_counter, omega_splices_counter>>
     /\ (<<omega_header_counter, omega_splices_counter, omega_algorithms_counter>>'
           /= <<omega_header_counter, omega_splices_counter, omega_algorithms_counter>>)
          => \/ \E line \in RequestLines : Handles(line)
             \/ /\ \E line \in VersionLines : cmd_O21(line)
                /\ omega_header_counter' = 0 /\ omega_splices_counter' = 0
                /\ omega_algorithms_counter' = 0]_vars

\* the second header request got the unset slot 1, and the first splice
\* request the first of the two splices inserted
C18_Witness ==
  /\ omega_header_counter = 2 /\ omega_splices_counter = 1
  /\ omega_splices = << <<0, "12.5">>, <<1, "50">> >>
  /\ \E i, j, k \in 1 .. Len(enq) :
       /\ i < j /\ enq[i] = "O21 D0014" /\ enq[j] = None
       /\ enq[k] = "O30 D0 D12.5"

====
